---- MODULE Spec2Model ----
(***************************************************************************)
(* Model of the alignment computation engine of the CRINK UN voting        *)
(* analysis package: src/src/alignment_metrics.py (AlignmentMetrics,       *)
(* MajorityAlignment) and src/src/data_processing.py (CRINKAnalyzer).      *)
(*                                                                         *)
(* Representation.  A vote is one of the strings "A", "N", "Y"; a missing  *)
(* cell of a table (pandas NaN) is the string "NaN".  An optional scalar   *)
(* (Python None / float nan) is a tuple: << >> is None or nan, <<x>> is a  *)
(* defined value.  A float percentage 100 * n / d is the exact fraction    *)
(* <<p, q>> in lowest terms, so two percentages are equal as floats iff    *)
(* their tuples are equal.  A DataFrame is a record [columns, rows]: the   *)
(* set of its column names and the sequence of its rows, each row a        *)
(* function from the column names.                                         *)
(***************************************************************************)
EXTENDS Integers, Sequences, FiniteSets, TLC

VARIABLES
    vote_pivot,        \* the pivoted vote matrix handed to the pairwise calculators
    self_vote_pivot,   \* CRINKAnalyzer.vote_pivot, the analyzer's own copy
    df,                \* the table handed to MajorityAlignment
    aligned_df,        \* the table MajorityAlignment.majority_alignment_summary is given
    ret                \* the last call: operation, arguments, returned value

vars == <<vote_pivot, self_vote_pivot, df, aligned_df, ret>>

(***************************************************************************)
(* Bounds of the model.                                                    *)
(***************************************************************************)
MaxResolutions == 3
MaxPivotRows == 1
MaxRecords == 2

(***************************************************************************)
(* Values.                                                                 *)
(***************************************************************************)
Votes == {"A", "N", "Y"}
NaN == "NaN"
Cell == Votes \cup {NaN}
None == << >>
nan == << >>

notna(v) == v # NaN

\* The order Python and pandas sort vote strings in.
VoteRank(v) == CASE v = "A" -> 1 [] v = "N" -> 2 [] v = "Y" -> 3

RECURSIVE GCD(_, _)
GCD(a, b) == IF b = 0 THEN a ELSE GCD(b, a % b)

\* The float 100 * n / d, d > 0, as a fraction in lowest terms.
Pct(n, d) == LET g == GCD(100 * n, d) IN <<(100 * n) \div g, d \div g>>

\* a <= b for two defined percentages.
PctLeq(a, b) == a[1] * b[2] <= b[1] * a[2]

CRINK_COUNTRIES ==
    <<"CHINA", "RUSSIAN FEDERATION", "IRAN (ISLAMIC REPUBLIC OF)",
      "DEMOCRATIC PEOPLE'S REPUBLIC OF KOREA">>

\* str.split()[0] of the country names the model uses.
FirstWord(c) ==
    CASE c = "CHINA" -> "CHINA"
      [] c = "RUSSIAN FEDERATION" -> "RUSSIAN"
      [] c = "IRAN (ISLAMIC REPUBLIC OF)" -> "IRAN"
      [] c = "DEMOCRATIC PEOPLE'S REPUBLIC OF KOREA" -> "DEMOCRATIC"

\* One column of a table, as a Series.
Column(table, c) == [i \in 1..Len(table.rows) |-> table.rows[i][c]]

\* Series.sum() of a boolean Series.
SumTrue(mask) == Cardinality({i \in DOMAIN mask : mask[i]})

(***************************************************************************)
(* AlignmentMetrics.voting_agreement                                       *)
(***************************************************************************)
both_voted_mutant(country1_votes, country2_votes) ==
    [i \in DOMAIN country1_votes |-> notna(country1_votes[i])]

both_voted(country1_votes, country2_votes) ==
    [i \in DOMAIN country1_votes |->
        notna(country1_votes[i]) /\ notna(country2_votes[i])]

identical_votes_mutant(country1_votes, country2_votes) ==
    LET mask == both_voted(country1_votes, country2_votes)
    IN  Cardinality({i \in DOMAIN mask :
                        mask[i] /\ country1_votes[i] # country2_votes[i]})

identical_votes(country1_votes, country2_votes) ==
    LET mask == both_voted(country1_votes, country2_votes)
    IN  Cardinality({i \in DOMAIN mask :
                        mask[i] /\ country1_votes[i] = country2_votes[i]})

voting_agreement_mutant(country1_votes, country2_votes) ==
    LET mask == both_voted(country1_votes, country2_votes)
        total == Len(country1_votes)
    IN  IF SumTrue(mask) = 0 THEN nan
        ELSE Pct(identical_votes(country1_votes, country2_votes), total)

voting_agreement(country1_votes, country2_votes) ==
    LET mask == both_voted(country1_votes, country2_votes)
        total == SumTrue(mask)
    IN  IF SumTrue(mask) = 0 THEN nan
        ELSE Pct(identical_votes(country1_votes, country2_votes), total)

(***************************************************************************)
(* AlignmentMetrics.agreement_variance                                     *)
(***************************************************************************)
\* Exact arithmetic on fractions <<p, q>>, q > 0, kept in lowest terms.
Frac(p, q) == LET g == GCD(IF p < 0 THEN -p ELSE p, q)
              IN  IF g = 0 THEN <<0, 1>> ELSE <<p \div g, q \div g>>
FracAdd(a, b) == Frac(a[1] * b[2] + b[1] * a[2], a[2] * b[2])
FracSub(a, b) == Frac(a[1] * b[2] - b[1] * a[2], a[2] * b[2])
FracMul(a, b) == Frac(a[1] * b[1], a[2] * b[2])
FracDivInt(a, n) == Frac(a[1], a[2] * n)

RECURSIVE FracSum(_)
FracSum(xs) == IF xs = << >> THEN <<0, 1>>
               ELSE FracAdd(Head(xs), FracSum(Tail(xs)))

\* np.mean and np.var (population variance) of a non-empty list.
np_mean(xs) == FracDivInt(FracSum(xs), Len(xs))
np_var(xs) ==
    LET m == np_mean(xs)
        sq == [i \in 1..Len(xs) |-> FracMul(FracSub(xs[i], m), FracSub(xs[i], m))]
    IN  np_mean(sq)

\* The (i, j), i < j, of "for i, m1 in enumerate(xs): for m2 in xs[i+1:]",
\* in the order the loops visit them.
RECURSIVE PairsFrom(_, _, _)
PairsFrom(i, j, n) ==
    IF i >= n THEN << >>
    ELSE IF j > n THEN PairsFrom(i + 1, i + 2, n)
    ELSE <<<<i, j>>>> \o PairsFrom(i, j + 1, n)

LoopPairs(n) == PairsFrom(1, 2, n)

\* zip(l1, l2) stops at the shorter list.
ZipLen(l1, l2) == IF Len(l1) <= Len(l2) THEN Len(l1) ELSE Len(l2)

variance_matches(l1, l2) ==
    Cardinality({i \in 1..ZipLen(l1, l2) :
                    l1[i] = l2[i] /\ notna(l1[i]) /\ notna(l2[i])})

variance_total(l1, l2) ==
    Cardinality({i \in 1..ZipLen(l1, l2) : notna(l1[i]) /\ notna(l2[i])})

RECURSIVE variance_agreements(_, _, _)
variance_agreements(votes_by_member, members, pairs) ==
    IF pairs = << >> THEN << >>
    ELSE LET l1 == votes_by_member[members[Head(pairs)[1]]]
             l2 == votes_by_member[members[Head(pairs)[2]]]
             total == variance_total(l1, l2)
             rest == variance_agreements(votes_by_member, members, Tail(pairs))
         IN  IF total > 0
             THEN <<Pct(variance_matches(l1, l2), total)>> \o rest
             ELSE rest

\* votes_by_member is a dict: members lists its keys in insertion order.
agreement_variance(votes_by_member, members) ==
    IF Len(members) < 2 THEN nan
    ELSE LET agreements ==
                 variance_agreements(votes_by_member, members, LoopPairs(Len(members)))
         IN  IF Len(agreements) = 0 THEN nan ELSE np_var(agreements)

(***************************************************************************)
(* DataFrame.sort_values(key, ascending=False): rows with equal keys keep  *)
(* their order.                                                            *)
(***************************************************************************)
RECURSIVE InsertDesc(_, _, _)
InsertDesc(sorted, row, key) ==
    IF sorted = << >> THEN <<row>>
    ELSE IF PctLeq(row[key], Head(sorted)[key])
         THEN <<Head(sorted)>> \o InsertDesc(Tail(sorted), row, key)
         ELSE <<row>> \o sorted

RECURSIVE SortDesc(_, _, _)
SortDesc(done, todo, key) ==
    IF todo = << >> THEN done
    ELSE SortDesc(InsertDesc(done, Head(todo), key), Tail(todo), key)

sort_values_descending(rows, key) == SortDesc(<< >>, rows, key)

(***************************************************************************)
(* CRINKAnalyzer.calculate_dyadic_alignment                                *)
(***************************************************************************)
\* self.vote_pivot[country1.notna() & country2.notna()]: the kept row numbers.
dyadic_both_voted(pivot, country1, country2) ==
    {i \in 1..Len(pivot.rows) :
        notna(pivot.rows[i][country1]) /\ notna(pivot.rows[i][country2])}

dyadic_row_mutant(pivot, country1, country2) ==
    LET kept == dyadic_both_voted(pivot, country1, country2)
        identical == Cardinality({i \in kept :
                        pivot.rows[i][country1] = pivot.rows[i][country2]})
        total == Len(pivot.rows)
    IN  [country1 |-> FirstWord(country1), country2 |-> FirstWord(country2),
         votes_identical |-> identical, votes_total |-> total,
         alignment_pct |-> Pct(identical, total)]

dyadic_row(pivot, country1, country2) ==
    LET kept == dyadic_both_voted(pivot, country1, country2)
        identical == Cardinality({i \in kept :
                        pivot.rows[i][country1] = pivot.rows[i][country2]})
        total == Cardinality(kept)
    IN  [country1 |-> FirstWord(country1), country2 |-> FirstWord(country2),
         votes_identical |-> identical, votes_total |-> total,
         alignment_pct |-> Pct(identical, total)]

RECURSIVE alignment_data(_, _, _)
alignment_data(pivot, countries, pairs) ==
    IF pairs = << >> THEN << >>
    ELSE LET country1 == countries[Head(pairs)[1]]
             country2 == countries[Head(pairs)[2]]
             rest == alignment_data(pivot, countries, Tail(pairs))
         IN  IF /\ country1 \in pivot.columns
                /\ country2 \in pivot.columns
                /\ dyadic_both_voted(pivot, country1, country2) # {}
             THEN <<dyadic_row(pivot, country1, country2)>> \o rest
             ELSE rest

\* countries = None stands for the CRINK list.  An empty alignment_data makes a
\* DataFrame without columns, and sort_values('alignment_pct') raises KeyError.
calculate_dyadic_alignment(pivot, countries) ==
    LET rows == alignment_data(pivot, countries, LoopPairs(Len(countries)))
    IN  IF rows = << >>
        THEN [error |-> "KeyError", rows |-> << >>]
        ELSE [error |-> "", rows |-> sort_values_descending(rows, "alignment_pct")]

(***************************************************************************)
(* The pairwise calculators on a growing vote matrix.  The matrix is       *)
(* loaded resolution by resolution; once an operation has been called the  *)
(* data is read-only.                                                      *)
(***************************************************************************)
NoCall == [op |-> "none"]

PairColumns == {"CHINA", "RUSSIAN FEDERATION"}

\* The cells of the vote matrix of the pairwise calculators: they only test a
\* cell for being missing and two cells for being equal, so two vote values
\* and the missing cell cover their cases.
PairCell == {"N", "Y", NaN}

EmptyTable == [columns |-> {}, rows |-> << >>]

\* The country lists calculate_dyadic_alignment is called with; the first is
\* the default (countries = None).
DyadicCountryLists ==
    {CRINK_COUNTRIES,
     <<"RUSSIAN FEDERATION", "CHINA">>,
     <<"CHINA", "RUSSIAN FEDERATION", "CHINA">>}

InitPair ==
    /\ vote_pivot = [columns |-> PairColumns, rows |-> << >>]
    /\ self_vote_pivot = EmptyTable
    /\ df = << >>
    /\ aligned_df = << >>
    /\ ret = NoCall

AppendResolution ==
    /\ ret = NoCall
    /\ Len(vote_pivot.rows) < MaxResolutions
    /\ \E row \in [vote_pivot.columns -> PairCell] :
          vote_pivot' = [vote_pivot EXCEPT !.rows = Append(@, row)]
    /\ UNCHANGED <<self_vote_pivot, df, aligned_df, ret>>

VotingAgreementCall ==
    /\ \E c1 \in vote_pivot.columns, c2 \in vote_pivot.columns :
          ret' = [op |-> "voting_agreement",
                  country1_votes |-> Column(vote_pivot, c1),
                  country2_votes |-> Column(vote_pivot, c2),
                  out |-> voting_agreement(Column(vote_pivot, c1),
                                           Column(vote_pivot, c2))]
    /\ UNCHANGED <<vote_pivot, self_vote_pivot, df, aligned_df>>

AgreementVarianceCall ==
    /\ \E members \in {<<"CHINA", "RUSSIAN FEDERATION">>, <<"CHINA">>} :
          LET votes_by_member ==
                  [c \in vote_pivot.columns |-> Column(vote_pivot, c)]
          IN  ret' = [op |-> "agreement_variance",
                      members |-> members,
                      out |-> agreement_variance(votes_by_member, members)]
    /\ UNCHANGED <<vote_pivot, self_vote_pivot, df, aligned_df>>

\* CRINKAnalyzer(vote_pivot).calculate_dyadic_alignment(countries)
DyadicAlignmentCall ==
    /\ \E countries \in DyadicCountryLists :
          ret' = [op |-> "calculate_dyadic_alignment",
                  countries |-> countries,
                  out |-> calculate_dyadic_alignment(vote_pivot, countries)]
    /\ UNCHANGED <<vote_pivot, self_vote_pivot, df, aligned_df>>

NextPair ==
    \/ AppendResolution
    \/ VotingAgreementCall
    \/ AgreementVarianceCall
    \/ DyadicAlignmentCall

SpecPair == InitPair /\ [][NextPair]_vars

(***************************************************************************)
(* Claims about the pairwise calculators (checked under SpecPair).         *)
(***************************************************************************)
\* The resolutions on which both voters have a defined vote, and those among
\* them on which the two votes are identical.
Comparable(a, b) == {i \in 1..Len(a) : a[i] \in Votes /\ b[i] \in Votes}
Agreeing(a, b) == {i \in Comparable(a, b) : a[i] = b[i]}

\* out is the percentage 100 * n / d (d > 0).
IsPctOf(out, n, d) == out # nan /\ out[1] * d = 100 * n * out[2]

\* The pairs of a country list that calculate_dyadic_alignment reports a row for.
ReportedPairs(pivot, countries) ==
    {pr \in (1..Len(countries)) \X (1..Len(countries)) :
        /\ pr[1] < pr[2]
        /\ countries[pr[1]] \in pivot.columns
        /\ countries[pr[2]] \in pivot.columns
        /\ Comparable(Column(pivot, countries[pr[1]]),
                      Column(pivot, countries[pr[2]])) # {}}

DyadicRowIsFor(row, pivot, c1, c2) ==
    LET a == Column(pivot, c1)
        b == Column(pivot, c2)
    IN  /\ row.country1 = FirstWord(c1)
        /\ row.country2 = FirstWord(c2)
        /\ row.votes_identical = Cardinality(Agreeing(a, b))
        /\ row.votes_total = Cardinality(Comparable(a, b))
        /\ IsPctOf(row.alignment_pct, Cardinality(Agreeing(a, b)),
                   Cardinality(Comparable(a, b)))

\* C1: pairwise agreement compares exactly the resolutions on which both voters
\* have a defined vote, counts the identical votes among them, and returns
\* 100 * agreement_count / comparable_count, undefined when nothing is
\* comparable; every row of calculate_dyadic_alignment holds these counts for
\* one pair that has a comparable resolution, one row per such pair.
C1_PairwiseAgreement ==
    /\ ret.op = "voting_agreement" =>
          LET a == ret.country1_votes
              b == ret.country2_votes
          IN  IF Comparable(a, b) = {}
              THEN ret.out = nan
              ELSE IsPctOf(ret.out, Cardinality(Agreeing(a, b)),
                           Cardinality(Comparable(a, b)))
    /\ (ret.op = "calculate_dyadic_alignment" /\ ret.out.error = "") =>
          /\ \A k \in 1..Len(ret.out.rows) :
                \E pr \in ReportedPairs(vote_pivot, ret.countries) :
                    DyadicRowIsFor(ret.out.rows[k], vote_pivot,
                                   ret.countries[pr[1]], ret.countries[pr[2]])
          /\ \A pr \in ReportedPairs(vote_pivot, ret.countries) :
                \E k \in 1..Len(ret.out.rows) :
                    DyadicRowIsFor(ret.out.rows[k], vote_pivot,
                                   ret.countries[pr[1]], ret.countries[pr[2]])
          /\ Len(ret.out.rows) =
                Cardinality(ReportedPairs(vote_pivot, ret.countries))

\* A = [Y, Y, N], B = [Y, N, N]: 2 of 3 comparable resolutions agree.
C1_Witness ==
    /\ ret.op = "voting_agreement"
    /\ ret.country1_votes = <<"Y", "Y", "N">>
    /\ ret.country2_votes = <<"Y", "N", "N">>
    /\ ret.out = <<200, 3>>

\* C8: pairwise agreement is symmetric: voting_agreement(A, B) equals
\* voting_agreement(B, A), also when both are undefined.
C8_Symmetry ==
    ret.op = "voting_agreement" =>
        ret.out = voting_agreement(ret.country2_votes, ret.country1_votes)

C8_Witness ==
    /\ ret.op = "voting_agreement"
    /\ ret.country1_votes # ret.country2_votes
    /\ \E i \in 1..Len(ret.country1_votes) :
          ret.country1_votes[i] = NaN /\ ret.country2_votes[i] # NaN
    /\ ret.out # nan

\* The step appends one resolution to the vote matrix.
AppendsResolution ==
    /\ Len(vote_pivot'.rows) = Len(vote_pivot.rows) + 1
    /\ SubSeq(vote_pivot'.rows, 1, Len(vote_pivot.rows)) = vote_pivot.rows

LastRow(pivot) == pivot.rows[Len(pivot.rows)]

\* C9: appending a resolution on which at least one of the two voters has no
\* recorded vote leaves their pairwise agreement unchanged (the percentage of
\* voting_agreement or its being undefined, the counts of agreement_variance,
\* the rows of calculate_dyadic_alignment).
C9_AbsenceIndependence ==
    [][AppendsResolution =>
        \A c1 \in PairColumns, c2 \in PairColumns :
            (LastRow(vote_pivot')[c1] = NaN \/ LastRow(vote_pivot')[c2] = NaN) =>
                LET a == Column(vote_pivot, c1)
                    b == Column(vote_pivot, c2)
                    a2 == Column(vote_pivot', c1)
                    b2 == Column(vote_pivot', c2)
                IN  /\ voting_agreement(a2, b2) = voting_agreement(a, b)
                    /\ variance_matches(a2, b2) = variance_matches(a, b)
                    /\ variance_total(a2, b2) = variance_total(a, b)
                    /\ calculate_dyadic_alignment(vote_pivot', <<c1, c2>>) =
                          calculate_dyadic_alignment(vote_pivot, <<c1, c2>>)]_vars

C9_Witness ==
    /\ ret.op = "voting_agreement"
    /\ Len(vote_pivot.rows) >= 2
    /\ ret.country1_votes = Column(vote_pivot, "CHINA")
    /\ ret.country2_votes = Column(vote_pivot, "RUSSIAN FEDERATION")
    /\ LastRow(vote_pivot)["CHINA"] = NaN
    /\ LastRow(vote_pivot)["RUSSIAN FEDERATION"] = "N"
    /\ ret.out # nan
    /\ ret.out = voting_agreement(
                    SubSeq(ret.country1_votes, 1, Len(vote_pivot.rows) - 1),
                    SubSeq(ret.country2_votes, 1, Len(vote_pivot.rows) - 1))

\* C10: when two voters have a comparable resolution, appending a resolution
\* on which both voted and cast the same vote does not decrease agreement_pct.
C10_Monotonicity ==
    [][AppendsResolution =>
        \A c1 \in PairColumns, c2 \in PairColumns :
            LET a == Column(vote_pivot, c1)
                b == Column(vote_pivot, c2)
                a2 == Column(vote_pivot', c1)
                b2 == Column(vote_pivot', c2)
            IN  (/\ LastRow(vote_pivot')[c1] \in Votes
                 /\ LastRow(vote_pivot')[c1] = LastRow(vote_pivot')[c2]
                 /\ Comparable(a, b) # {}) =>
                    /\ voting_agreement(a, b) # nan
                    /\ voting_agreement(a2, b2) # nan
                    /\ PctLeq(voting_agreement(a, b), voting_agreement(a2, b2))]_vars

\* After agreeing on 1 of 2 resolutions (50%) the voters agree on a third: 2 of 3.
C10_Witness ==
    /\ ret.op = "voting_agreement"
    /\ Len(vote_pivot.rows) = 3
    /\ ret.country1_votes = Column(vote_pivot, "CHINA")
    /\ ret.country2_votes = Column(vote_pivot, "RUSSIAN FEDERATION")
    /\ voting_agreement(SubSeq(ret.country1_votes, 1, 2),
                        SubSeq(ret.country2_votes, 1, 2)) = <<50, 1>>
    /\ LastRow(vote_pivot)["CHINA"] = "Y"
    /\ LastRow(vote_pivot)["RUSSIAN FEDERATION"] = "Y"
    /\ ret.out = <<200, 3>>

(***************************************************************************)
(* collections.Counter and the group vote of one resolution                *)
(***************************************************************************)
Range(seq) == {seq[i] : i \in 1..Len(seq)}

\* The keys of Counter(votes): the distinct votes, in order of first occurrence.
RECURSIVE CounterKeys(_)
CounterKeys(votes) ==
    IF votes = << >> THEN << >>
    ELSE LET front == CounterKeys(SubSeq(votes, 1, Len(votes) - 1))
             last == votes[Len(votes)]
         IN  IF last \in Range(front) THEN front ELSE Append(front, last)

CounterCount(votes, v) == Cardinality({i \in 1..Len(votes) : votes[i] = v})

\* max(items, key=count): a later key replaces the best one only with a
\* strictly larger count.
RECURSIVE MaxByCount(_, _, _)
MaxByCount(votes, keys, best) ==
    IF keys = << >> THEN best
    ELSE MaxByCount(votes, Tail(keys),
                    IF CounterCount(votes, Head(keys)) > CounterCount(votes, best)
                    THEN Head(keys) ELSE best)

most_common_1_mutant(votes) ==
    LET keys == CounterKeys(votes)
        best == keys[Len(keys)]
    IN  <<best, CounterCount(votes, best)>>

\* Counter(votes).most_common(1)[0] of a non-empty list: (vote, count).
most_common_1(votes) ==
    LET keys == CounterKeys(votes)
        best == MaxByCount(votes, Tail(keys), Head(keys))
    IN  <<best, CounterCount(votes, best)>>

\* [row[c] for c in group_countries if c in row.index and pd.notna(row[c])]
RECURSIVE group_votes(_, _, _)
group_votes(row, columns, group_countries) ==
    IF group_countries = << >> THEN << >>
    ELSE LET c == Head(group_countries)
             rest == group_votes(row, columns, Tail(group_countries))
         IN  IF c \in columns /\ notna(row[c]) THEN <<row[c]>> \o rest ELSE rest

\* Counter(votes).most_common(1)[0][0] if votes else None
group_majority_vote(votes) ==
    IF votes = << >> THEN None ELSE <<most_common_1(votes)[1]>>

(***************************************************************************)
(* CRINKAnalyzer._count_agreement, AlignmentMetrics.coalition_strength     *)
(***************************************************************************)
_count_agreement_mutant(votes) ==
    IF Len(votes) < 2 THEN None ELSE <<most_common_1(votes)[2]>>

_count_agreement(votes) ==
    IF Len(votes) < 2 THEN None
    ELSE LET count == most_common_1(votes)[2]
         IN  IF count >= 2 THEN <<count>> ELSE None

coalition_strength(votes) ==
    IF Len(votes) = 0 THEN nan
    ELSE Pct(most_common_1(votes)[2], Len(votes))

(***************************************************************************)
(* CRINKAnalyzer.calculate_crink_votes: adds three columns to the          *)
(* analyzer's own table and returns that table.                            *)
(***************************************************************************)
calculate_crink_votes(pivot) ==
    [columns |-> pivot.columns \cup
                    {"crink_votes", "crink_group_vote", "agreement_count"},
     rows |-> [i \in 1..Len(pivot.rows) |->
                  LET votes == group_votes(pivot.rows[i], pivot.columns,
                                           CRINK_COUNTRIES)
                  IN  ("crink_votes" :> votes) @@
                      ("crink_group_vote" :> group_majority_vote(votes)) @@
                      ("agreement_count" :> _count_agreement(votes)) @@
                      pivot.rows[i]]]

(***************************************************************************)
(* MajorityAlignment                                                       *)
(***************************************************************************)
\* df[df['undl_id'] == resolution_id]['ms_vote'], and the same Series with
\* its missing values dropped.
resolution_votes(table, resolution_id) ==
    SelectSeq(table.rows, LAMBDA r : r.undl_id = resolution_id)

RECURSIVE ms_votes_dropna(_)
ms_votes_dropna(rows) ==
    IF rows = << >> THEN << >>
    ELSE IF notna(Head(rows).ms_vote)
         THEN <<Head(rows).ms_vote>> \o ms_votes_dropna(Tail(rows))
         ELSE ms_votes_dropna(Tail(rows))

\* The votes with the highest count.
MostFrequent(votes) ==
    {v \in Range(votes) :
        \A w \in Range(votes) : CounterCount(votes, w) <= CounterCount(votes, v)}

\* Series.value_counts().index[0]: value_counts sorts by count and documents
\* no order among equal counts, so the first entry is one of the most
\* frequent votes.
value_counts_first(votes) == MostFrequent(votes)

\* The values get_majority_vote may return.
get_majority_vote(table, resolution_id) ==
    LET votes == ms_votes_dropna(resolution_votes(table, resolution_id))
    IN  IF Len(resolution_votes(table, resolution_id)) = 0 THEN {None}
        ELSE IF votes = << >> THEN {None}
        ELSE {<<v>> : v \in value_counts_first(votes)}

\* x.mode()[0] if len(x.mode()) > 0 else None: mode() drops the missing
\* values and returns the most frequent ones sorted, so [0] is the smallest.
mode_0(votes) ==
    IF votes = << >> THEN None
    ELSE <<CHOOSE v \in MostFrequent(votes) :
              \A w \in MostFrequent(votes) : VoteRank(v) <= VoteRank(w)>>

aligned_flag_mutant(group_vote, majority_vote, votes) ==
    group_vote = majority_vote

\* (group_majority_vote == majority_vote) & (len(group_votes) >= 2); a
\* comparison with None is False.
aligned_flag(group_vote, majority_vote, votes) ==
    /\ group_vote # None
    /\ majority_vote # None
    /\ group_vote = majority_vote
    /\ Len(votes) >= 2

calculate_majority_alignment(table, group_countries) ==
    [columns |-> table.columns \cup
                    {"majority_vote", "group_votes", "group_majority_vote",
                     "aligned_with_majority"},
     rows |-> [i \in 1..Len(table.rows) |->
                  LET row == table.rows[i]
                      majority == mode_0(ms_votes_dropna(
                                            resolution_votes(table, row.undl_id)))
                      votes == group_votes(row, table.columns, group_countries)
                  IN  ("majority_vote" :> majority) @@
                      ("group_votes" :> votes) @@
                      ("group_majority_vote" :> group_majority_vote(votes)) @@
                      ("aligned_with_majority" :>
                          aligned_flag(group_majority_vote(votes), majority, votes)) @@
                      row]]

\* df['aligned_with_majority'].notna().sum(): the flag is a boolean in every row.
summary_total(table) ==
    Cardinality({i \in 1..Len(table.rows) :
                    table.rows[i].aligned_with_majority \in BOOLEAN})

majority_alignment_summary(table) ==
    LET aligned == Cardinality({i \in 1..Len(table.rows) :
                                   table.rows[i].aligned_with_majority})
        total == summary_total(table)
    IN  [total_resolutions |-> total,
         aligned_resolutions |-> aligned,
         alignment_pct |-> IF total > 0 THEN Pct(aligned, total) ELSE <<0, 1>>]

(***************************************************************************)
(* The group calculators.  Either a CRINKAnalyzer has been constructed on  *)
(* a vote matrix (InitAnalyzer), or a table of vote records, each carrying *)
(* the country columns of its resolution, is handed to MajorityAlignment   *)
(* (InitMajority).  Both tables have at least one row: DataFrame.apply     *)
(* with axis=1 yields a column of lists only for a table that has rows.    *)
(***************************************************************************)
GroupColumns == {"CHINA", "RUSSIAN FEDERATION", "IRAN (ISLAMIC REPUBLIC OF)"}

MajorityColumns == {"CHINA", "RUSSIAN FEDERATION"}

ResolutionIds == {"R1", "R2"}

\* The group_countries lists calculate_majority_alignment is called with.
GroupLists == {CRINK_COUNTRIES, <<"RUSSIAN FEDERATION", "CHINA">>}

\* The caller's table of alignment flags before any has been computed.
NoFlags == [columns |-> {"aligned_with_majority"}, rows |-> << >>]

NoRecords == [columns |-> {"undl_id", "ms_vote"} \cup MajorityColumns,
              rows |-> << >>]

InitAnalyzer ==
    /\ vote_pivot = EmptyTable
    /\ \E n \in 1..MaxPivotRows :
          \E rows \in [1..n -> [GroupColumns -> Cell]] :
              self_vote_pivot = [columns |-> GroupColumns, rows |-> rows]
    /\ df = NoRecords
    /\ aligned_df = NoFlags
    /\ ret = NoCall

InitMajority ==
    /\ vote_pivot = EmptyTable
    /\ self_vote_pivot = EmptyTable
    /\ \E n \in 1..MaxRecords :
          \E records \in [1..n -> [undl_id : ResolutionIds, ms_vote : PairCell]],
             votes \in [ResolutionIds -> [MajorityColumns -> PairCell]] :
              df = [NoRecords EXCEPT !.rows =
                       [i \in 1..n |-> records[i] @@ votes[records[i].undl_id]]]
    /\ aligned_df = NoFlags
    /\ ret = NoCall

InitGroup == InitAnalyzer \/ InitMajority

CalculateCrinkVotes ==
    /\ self_vote_pivot # EmptyTable
    /\ self_vote_pivot' = calculate_crink_votes(self_vote_pivot)
    /\ ret' = [op |-> "calculate_crink_votes"]
    /\ UNCHANGED <<vote_pivot, df, aligned_df>>

\* AlignmentMetrics.coalition_strength on the votes the group cast on one
\* resolution of the analyzer's matrix.
CoalitionStrengthCall ==
    /\ \E i \in 1..Len(self_vote_pivot.rows) :
          LET votes == group_votes(self_vote_pivot.rows[i],
                                   self_vote_pivot.columns, CRINK_COUNTRIES)
          IN  ret' = [op |-> "coalition_strength",
                      votes |-> votes,
                      out |-> coalition_strength(votes)]
    /\ UNCHANGED <<vote_pivot, self_vote_pivot, df, aligned_df>>

GetMajorityVoteCall ==
    /\ \E resolution_id \in ResolutionIds :
          \E out \in get_majority_vote(df, resolution_id) :
              ret' = [op |-> "get_majority_vote",
                      resolution_id |-> resolution_id,
                      out |-> out]
    /\ UNCHANGED <<vote_pivot, self_vote_pivot, df, aligned_df>>

CalculateMajorityAlignmentCall ==
    /\ Len(df.rows) > 0
    /\ \E group_countries \in GroupLists :
          /\ aligned_df' = calculate_majority_alignment(df, group_countries)
          /\ ret' = [op |-> "calculate_majority_alignment",
                     group_countries |-> group_countries]
    /\ UNCHANGED <<vote_pivot, self_vote_pivot, df>>

MajorityAlignmentSummaryCall ==
    /\ ret' = [op |-> "majority_alignment_summary",
               out |-> majority_alignment_summary(aligned_df)]
    /\ UNCHANGED <<vote_pivot, self_vote_pivot, df, aligned_df>>

NextGroup ==
    \/ CalculateCrinkVotes
    \/ CoalitionStrengthCall
    \/ GetMajorityVoteCall
    \/ CalculateMajorityAlignmentCall
    \/ MajorityAlignmentSummaryCall

SpecGroup == InitGroup /\ [][NextGroup]_vars

(***************************************************************************)
(* Claims about the group calculators (checked under SpecGroup).           *)
(***************************************************************************)
\* The positions in the member list of the members that voted on a resolution.
Voters(row, columns, members) ==
    {k \in 1..Len(members) : members[k] \in columns /\ row[members[k]] \in Votes}

VotesFor(row, columns, members, v) ==
    Cardinality({k \in Voters(row, columns, members) : row[members[k]] = v})

\* g has the highest count among the votes the members cast, and no vote with
\* the same count is cast by a member earlier in the list than every member
\* that cast g.
IsPluralityVote(row, columns, members, g) ==
    /\ \E k \in Voters(row, columns, members) : row[members[k]] = g
    /\ \A j \in Voters(row, columns, members) :
          LET v == row[members[j]]
          IN  /\ VotesFor(row, columns, members, v) <=
                    VotesFor(row, columns, members, g)
              /\ VotesFor(row, columns, members, v) =
                    VotesFor(row, columns, members, g) =>
                    \E k \in Voters(row, columns, members) :
                        k <= j /\ row[members[k]] = g

\* C2: on a resolution where fewer than 2 members of the group voted, the
\* group vote, the support count and the cohesion percentage are all undefined.
C2_LoneVoterUndefined ==
    /\ ret.op = "calculate_crink_votes" =>
          \A i \in 1..Len(self_vote_pivot.rows) :
              LET row == self_vote_pivot.rows[i]
              IN  Cardinality(Voters(row, GroupColumns, CRINK_COUNTRIES)) < 2 =>
                      /\ row.crink_group_vote = None
                      /\ row.agreement_count = None
    /\ ret.op = "coalition_strength" =>
          (Len(ret.votes) < 2 => ret.out = nan)
    /\ ret.op = "calculate_majority_alignment" =>
          \A i \in 1..Len(aligned_df.rows) :
              LET row == aligned_df.rows[i]
              IN  Cardinality(Voters(row, MajorityColumns, ret.group_countries)) < 2
                      => row.group_majority_vote = None

\* C6: the group vote of a resolution is the vote with the highest count among
\* the votes of the members that voted, and among several such votes the one
\* cast by the member earliest in the member list.
C6_GroupPlurality ==
    /\ ret.op = "calculate_crink_votes" =>
          \A i \in 1..Len(self_vote_pivot.rows) :
              LET row == self_vote_pivot.rows[i]
              IN  IF Voters(row, GroupColumns, CRINK_COUNTRIES) = {}
                  THEN row.crink_group_vote = None
                  ELSE /\ Len(row.crink_group_vote) = 1
                       /\ IsPluralityVote(row, GroupColumns, CRINK_COUNTRIES,
                                          row.crink_group_vote[1])
    /\ ret.op = "calculate_majority_alignment" =>
          \A i \in 1..Len(aligned_df.rows) :
              LET row == aligned_df.rows[i]
              IN  IF Voters(row, MajorityColumns, ret.group_countries) = {}
                  THEN row.group_majority_vote = None
                  ELSE /\ Len(row.group_majority_vote) = 1
                       /\ IsPluralityVote(row, MajorityColumns, ret.group_countries,
                                          row.group_majority_vote[1])

\* CHINA votes Y, RUSSIAN FEDERATION votes N, IRAN is absent: a tie, and the
\* group vote is the Y of the member listed first.
C6_Witness ==
    /\ ret.op = "calculate_crink_votes"
    /\ self_vote_pivot.rows[1]["CHINA"] = "Y"
    /\ self_vote_pivot.rows[1]["RUSSIAN FEDERATION"] = "N"
    /\ self_vote_pivot.rows[1]["IRAN (ISLAMIC REPUBLIC OF)"] = NaN
    /\ self_vote_pivot.rows[1].crink_votes = <<"Y", "N">>
    /\ self_vote_pivot.rows[1].crink_group_vote = <<"Y">>

\* The votes recorded for a resolution, in row order.
RecordedVotes(table, resolution_id) ==
    ms_votes_dropna(resolution_votes(table, resolution_id))

\* C3: the aligned flag of a resolution is true if and only if at least 2 group
\* members voted on it and the group's plurality vote equals the resolution's
\* overall majority vote (which is one of its most frequent recorded votes).
C3_AlignedFlag ==
    ret.op = "calculate_majority_alignment" =>
        \A i \in 1..Len(aligned_df.rows) :
            LET row == aligned_df.rows[i]
                voters == Voters(row, MajorityColumns, ret.group_countries)
            IN  /\ row.aligned_with_majority <=>
                      /\ Cardinality(voters) >= 2
                      /\ \E g \in Votes :
                            /\ IsPluralityVote(row, MajorityColumns,
                                               ret.group_countries, g)
                            /\ row.majority_vote = <<g>>
                /\ IF RecordedVotes(df, row.undl_id) = << >>
                   THEN row.majority_vote = None
                   ELSE /\ Len(row.majority_vote) = 1
                        /\ row.majority_vote[1] \in
                              MostFrequent(RecordedVotes(df, row.undl_id))

\* The overall vote is N, N; both group members vote Y: not aligned.
C3_Witness ==
    /\ ret.op = "calculate_majority_alignment"
    /\ Len(aligned_df.rows) = 2
    /\ \A i \in 1..2 :
          /\ aligned_df.rows[i].undl_id = "R1"
          /\ aligned_df.rows[i].ms_vote = "N"
          /\ aligned_df.rows[i].majority_vote = <<"N">>
          /\ aligned_df.rows[i].group_votes = <<"Y", "Y">>
          /\ aligned_df.rows[i].group_majority_vote = <<"Y">>
          /\ ~aligned_df.rows[i].aligned_with_majority

\* C4: total_resolutions of majority_alignment_summary counts only the
\* resolutions on which at least 2 group members voted; the others are not
\* in the denominator of alignment_pct.
C4_SummaryDenominator ==
    ret.op = "majority_alignment_summary" =>
        LET considered == {i \in 1..Len(aligned_df.rows) :
                              Len(aligned_df.rows[i].group_votes) >= 2}
            aligned == {i \in considered : aligned_df.rows[i].aligned_with_majority}
        IN  /\ ret.out.total_resolutions = Cardinality(considered)
            /\ considered # {} =>
                  IsPctOf(ret.out.alignment_pct, Cardinality(aligned),
                          Cardinality(considered))

\* The most frequent vote that occurs first in row order.
FirstMostFrequent(votes) ==
    IF votes = << >> THEN None
    ELSE <<votes[CHOOSE i \in 1..Len(votes) :
                    /\ votes[i] \in MostFrequent(votes)
                    /\ \A j \in 1..(i - 1) : votes[j] \notin MostFrequent(votes)]>>

\* C5: the overall majority vote of a resolution is its most frequent recorded
\* vote, among several the one that occurs first in row order; get_majority_vote
\* and the majority_vote column of calculate_majority_alignment both give it,
\* and so agree.
C5_MajorityTieBreak ==
    /\ ret.op = "get_majority_vote" =>
          ret.out = FirstMostFrequent(RecordedVotes(df, ret.resolution_id))
    /\ ret.op = "calculate_majority_alignment" =>
          \A i \in 1..Len(aligned_df.rows) :
              LET row == aligned_df.rows[i]
              IN  /\ row.majority_vote =
                        FirstMostFrequent(RecordedVotes(df, row.undl_id))
                  /\ get_majority_vote(df, row.undl_id) = {row.majority_vote}

\* out is undefined exactly when the denominator is zero, and otherwise a
\* percentage in [0, 100].
PctWellDefined(out, denominator) ==
    /\ (out = nan) <=> (denominator = 0)
    /\ out # nan => (0 <= out[1] /\ out[1] <= 100 * out[2])

\* C7: every percentage the engine returns is undefined or in [0, 100], and is
\* undefined exactly when its denominator is zero.
C7_PercentageRange ==
    /\ ret.op = "voting_agreement" =>
          PctWellDefined(ret.out, Cardinality(Comparable(ret.country1_votes,
                                                         ret.country2_votes)))
    /\ ret.op = "calculate_dyadic_alignment" =>
          \A k \in 1..Len(ret.out.rows) :
              PctWellDefined(ret.out.rows[k].alignment_pct,
                             ret.out.rows[k].votes_total)
    /\ ret.op = "coalition_strength" =>
          PctWellDefined(ret.out, Len(ret.votes))
    /\ ret.op = "majority_alignment_summary" =>
          PctWellDefined(ret.out.alignment_pct, ret.out.total_resolutions)

(***************************************************************************)
(* CRINKAnalyzer.calculate_western_alignment and get_summary_stats.  Both  *)
(* read columns of the analyzer's table that calculate_crink_votes adds;   *)
(* a missing column raises KeyError.  An outcome is the error raised ("",  *)
(* none) with the analyzer's table as the call leaves it, or with the      *)
(* returned statistics.                                                    *)
(***************************************************************************)
WESTERN_COUNTRIES == <<"UNITED STATES", "GERMANY", "FRANCE", "UNITED KINGDOM">>

\* The three column assignments that precede the comparison.
western_columns(pivot) ==
    [columns |-> pivot.columns \cup
                    {"western_votes", "western_group_vote",
                     "western_agreement_count"},
     rows |-> [i \in 1..Len(pivot.rows) |->
                  LET votes == group_votes(pivot.rows[i], pivot.columns,
                                           WESTERN_COUNTRIES)
                  IN  ("western_votes" :> votes) @@
                      ("western_group_vote" :> group_majority_vote(votes)) @@
                      ("western_agreement_count" :> _count_agreement(votes)) @@
                      pivot.rows[i]]]

\* (crink_group_vote == western_group_vote) & agreement_count.notna()
\*     & western_agreement_count.notna(); a comparison with None is False.
crink_vs_western(row) ==
    /\ row.crink_group_vote # None
    /\ row.crink_group_vote = row.western_group_vote
    /\ row.agreement_count # None
    /\ row.western_agreement_count # None

calculate_western_alignment(pivot) ==
    LET with_western == western_columns(pivot)
    IN  IF {"crink_group_vote", "agreement_count"} \subseteq pivot.columns
        THEN [error |-> "",
              table |-> [columns |-> with_western.columns \cup {"crink_vs_western"},
                         rows |-> [i \in 1..Len(with_western.rows) |->
                                      ("crink_vs_western" :>
                                          crink_vs_western(with_western.rows[i])) @@
                                      with_western.rows[i]]]]
        ELSE [error |-> "KeyError", table |-> with_western]

\* The keys pct_2way, pct_3way, pct_4way exist only when total_crink_votes > 0;
\* << >> stands for a key the dict does not have.
get_summary_stats(pivot) ==
    IF "agreement_count" \notin pivot.columns
    THEN [error |-> "KeyError"]
    ELSE LET ways(k) == Cardinality({i \in 1..Len(pivot.rows) :
                                        pivot.rows[i].agreement_count = <<k>>})
             total == Cardinality({i \in 1..Len(pivot.rows) :
                                      pivot.rows[i].agreement_count # None})
         IN  [error |-> "",
              total_resolutions |-> Len(pivot.rows),
              total_crink_votes |-> total,
              votes_2way |-> ways(2),
              votes_3way |-> ways(3),
              votes_4way |-> ways(4),
              pct_2way |-> IF total > 0 THEN Pct(ways(2), total) ELSE << >>,
              pct_3way |-> IF total > 0 THEN Pct(ways(3), total) ELSE << >>,
              pct_4way |-> IF total > 0 THEN Pct(ways(4), total) ELSE << >>]

(***************************************************************************)
(* A CRINKAnalyzer constructed on the caller's vote matrix: vote_pivot is  *)
(* the caller's table, self_vote_pivot the copy the constructor takes.     *)
(***************************************************************************)
AnalyzerColumns == {"CHINA", "RUSSIAN FEDERATION", "UNITED STATES", "FRANCE"}

InitCRINKAnalyzer ==
    /\ \E n \in 1..MaxPivotRows :
          \E rows \in [1..n -> [AnalyzerColumns -> PairCell]] :
              vote_pivot = [columns |-> AnalyzerColumns, rows |-> rows]
    /\ self_vote_pivot = vote_pivot
    /\ df = NoRecords
    /\ aligned_df = NoFlags
    /\ ret = NoCall

CalculateWesternAlignmentCall ==
    /\ self_vote_pivot # EmptyTable
    /\ LET outcome == calculate_western_alignment(self_vote_pivot)
       IN  /\ self_vote_pivot' = outcome.table
           /\ ret' = [op |-> "calculate_western_alignment",
                      error |-> outcome.error]
    /\ UNCHANGED <<vote_pivot, df, aligned_df>>

GetSummaryStatsCall ==
    /\ self_vote_pivot # EmptyTable
    /\ ret' = [op |-> "get_summary_stats",
               out |-> get_summary_stats(self_vote_pivot)]
    /\ UNCHANGED <<vote_pivot, self_vote_pivot, df, aligned_df>>

NextAnalyzer ==
    \/ CalculateCrinkVotes
    \/ CalculateWesternAlignmentCall
    \/ GetSummaryStatsCall

SpecAnalyzer == InitCRINKAnalyzer /\ [][NextAnalyzer]_vars

(***************************************************************************)
(* Claims about the analyzer's state (checked under SpecAnalyzer).         *)
(***************************************************************************)
\* The analyzer as the constructor leaves it: a copy of the caller's table.
FreshAnalyzer == vote_pivot

\* C11: every operation is a pure function of its input: what a call on the
\* analyzer gives (its result or its failure) is what the same call gives on a
\* freshly constructed analyzer of the same vote matrix, whatever was called
\* before; in particular for calculate_western_alignment and get_summary_stats
\* whether or not calculate_crink_votes was called earlier.
C11_PureOperations ==
    /\ ret.op = "calculate_western_alignment" =>
          [error |-> ret.error, table |-> self_vote_pivot] =
              calculate_western_alignment(FreshAnalyzer)
    /\ ret.op = "get_summary_stats" =>
          ret.out = get_summary_stats(FreshAnalyzer)
    /\ ret.op = "calculate_crink_votes" =>
          self_vote_pivot = calculate_crink_votes(FreshAnalyzer)

\* C12: no operation changes a table that existed before it was invoked: the
\* caller's input tables stay as they are, and so does the table that
\* calculate_crink_votes has returned (the one that holds its columns).
C12_NoTableMutated ==
    [][/\ vote_pivot' = vote_pivot
       /\ df' = df
       /\ "crink_votes" \in self_vote_pivot.columns =>
             self_vote_pivot' = self_vote_pivot]_vars

(***************************************************************************)
(* TopicAlignment and TimeSeriesAlignment: aggregation of a vote table by  *)
(* the values of one of its columns (a topic, a year).                     *)
(***************************************************************************)
\* Series.unique(): the distinct values in order of first appearance.
RECURSIVE unique(_)
unique(series) ==
    IF series = << >> THEN << >>
    ELSE LET front == unique(SubSeq(series, 1, Len(series) - 1))
             last == series[Len(series)]
         IN  IF last \in Range(front) THEN front ELSE Append(front, last)

\* sorted(...) of a list of numbers.
RECURSIVE InsertAsc(_, _)
InsertAsc(sorted, x) ==
    IF sorted = << >> THEN <<x>>
    ELSE IF Head(sorted) <= x
         THEN <<Head(sorted)>> \o InsertAsc(Tail(sorted), x)
         ELSE <<x>> \o sorted

RECURSIVE sorted(_)
sorted(list) ==
    IF list = << >> THEN << >> ELSE InsertAsc(sorted(Tail(list)), Head(list))

\* df[df[col] == value]: the rows of one partition, in table order.
partition_rows(table, col, value) ==
    SelectSeq(table.rows, LAMBDA row : row[col] = value)

\* len(votes) >= 2 and len(set(votes)) == 1
unanimous_mutant(votes) == Cardinality(Range(votes)) = 1

unanimous(votes) == Len(votes) >= 2 /\ Cardinality(Range(votes)) = 1

yearly_row(table, year, group_countries) ==
    LET year_data == partition_rows(table, "year", year)
        total == Len(year_data)
        count == Cardinality({i \in 1..total :
                     unanimous(group_votes(year_data[i], table.columns,
                                           group_countries))})
    IN  [year |-> year, total_resolutions |-> total, unanimous_votes |-> count,
         unanimity_pct |-> IF total > 0 THEN Pct(count, total) ELSE <<0, 1>>]

yearly_alignment_stats(table, group_countries) ==
    LET years == sorted(unique(Column(table, "year")))
    IN  [i \in 1..Len(years) |-> yearly_row(table, years[i], group_countries)]

\* sum(1 for v in Counter(votes).values() if v >= 2) if len(votes) >= 2 else 0
topic_agreement_count_mutant(votes) ==
    IF Len(votes) >= 2
    THEN Cardinality({v \in Range(CounterKeys(votes)) :
                         CounterCount(votes, v) >= 1})
    ELSE 0

topic_agreement_count(votes) ==
    IF Len(votes) >= 2
    THEN Cardinality({v \in Range(CounterKeys(votes)) :
                         CounterCount(votes, v) >= 2})
    ELSE 0

topic_row(table, topic, group_countries) ==
    LET topic_data == partition_rows(table, "topic", topic)
        total_votes == Len(topic_data)
        count == Cardinality({i \in 1..total_votes :
                     topic_agreement_count(
                         group_votes(topic_data[i], table.columns,
                                     group_countries)) > 0})
    IN  [topic |-> topic, total_resolutions |-> total_votes,
         unanimous_resolutions |-> count,
         agreement_pct |-> IF total_votes > 0 THEN Pct(count, total_votes)
                           ELSE <<0, 1>>]

\* A table without rows has no topic: pd.DataFrame([]) has no column and
\* sort_values('agreement_pct') raises KeyError.
alignment_by_topic(table, group_countries) ==
    LET topics == unique(Column(table, "topic"))
        results == [i \in 1..Len(topics) |->
                       topic_row(table, topics[i], group_countries)]
    IN  IF results = << >>
        THEN [error |-> "KeyError", rows |-> << >>]
        ELSE [error |-> "",
              rows |-> sort_values_descending(results, "agreement_pct")]

\* topic_data[topic_data[c1].notna() & topic_data[c2].notna()]
divergence_both(topic_data, c1, c2) ==
    SelectSeq(topic_data, LAMBDA row : notna(row[c1]) /\ notna(row[c2]))

divergence_agreement(topic_data, c1, c2) ==
    LET both == divergence_both(topic_data, c1, c2)
    IN  Pct(Cardinality({i \in 1..Len(both) : both[i][c1] = both[i][c2]}),
            Len(both))

RECURSIVE divergence_agreements_mutant(_, _, _, _)
divergence_agreements_mutant(topic_data, columns, countries, pairs) ==
    IF pairs = << >> THEN << >>
    ELSE LET c1 == countries[Head(pairs)[1]]
             c2 == countries[Head(pairs)[2]]
             rest == divergence_agreements_mutant(topic_data, columns, countries,
                                                  Tail(pairs))
         IN  IF c1 \in columns /\ c2 \in columns
             THEN IF Len(divergence_both(topic_data, c1, c2)) > 0
                  THEN <<divergence_agreement(topic_data, c1, c2)>> \o rest
                  ELSE <<<<0, 1>>>> \o rest
             ELSE rest

\* The pairwise loop: one agreement per pair of columns with a resolution both
\* voted on.
RECURSIVE divergence_agreements(_, _, _, _)
divergence_agreements(topic_data, columns, countries, pairs) ==
    IF pairs = << >> THEN << >>
    ELSE LET c1 == countries[Head(pairs)[1]]
             c2 == countries[Head(pairs)[2]]
             rest == divergence_agreements(topic_data, columns, countries,
                                           Tail(pairs))
         IN  IF /\ c1 \in columns
                /\ c2 \in columns
                /\ Len(divergence_both(topic_data, c1, c2)) > 0
             THEN <<divergence_agreement(topic_data, c1, c2)>> \o rest
             ELSE rest

\* min(agreements) and max(agreements).
MinPct(xs) == CHOOSE x \in Range(xs) : \A y \in Range(xs) : PctLeq(x, y)
MaxPct(xs) == CHOOSE x \in Range(xs) : \A y \in Range(xs) : PctLeq(y, x)

\* np.std(agreements) is the square root of np.var(agreements): the model
\* keeps the number under the root.
np_std(xs) == [sqrt |-> np_var(xs)]

RECURSIVE divergence_results(_, _, _)
divergence_results(table, topics, countries) ==
    IF topics = << >> THEN << >>
    ELSE LET topic == Head(topics)
             agreements ==
                 divergence_agreements(partition_rows(table, "topic", topic),
                                       table.columns, countries,
                                       LoopPairs(Len(countries)))
             rest == divergence_results(table, Tail(topics), countries)
         IN  IF agreements # << >>
             THEN <<[topic |-> topic,
                     avg_agreement |-> np_mean(agreements),
                     agreement_std |-> np_std(agreements),
                     min_agreement |-> MinPct(agreements),
                     max_agreement |-> MaxPct(agreements)]>> \o rest
             ELSE rest

voting_divergence_by_topic(table, countries) ==
    divergence_results(table, unique(Column(table, "topic")), countries)

(***************************************************************************)
(* The aggregators on a vote table with a topic column or a year column.   *)
(***************************************************************************)
MaxTableRows == 2

Topics == {"DISARMAMENT", "HUMAN RIGHTS"}
Years == {2020, 2021}

\* The third member either votes "Y" or is missing: with two free members
\* this gives lone voters, pairs, split votes, unanimous and 2-to-1 votes.
TableRowVotes ==
    {row \in [GroupColumns -> PairCell] :
        row["IRAN (ISLAMIC REPUBLIC OF)"] \in {"Y", NaN}}

PartitionedTables(col, values) ==
    {[columns |-> GroupColumns \cup {col}, rows |-> rows] :
        rows \in UNION {[1..n -> {(col :> value) @@ votes :
                                     value \in values, votes \in TableRowVotes}] :
                        n \in 1..MaxTableRows}}

InitTopicTable ==
    /\ df \in PartitionedTables("topic", Topics)
    /\ vote_pivot = EmptyTable
    /\ self_vote_pivot = EmptyTable
    /\ aligned_df = NoFlags
    /\ ret = NoCall

InitYearTable ==
    /\ df \in PartitionedTables("year", Years)
    /\ vote_pivot = EmptyTable
    /\ self_vote_pivot = EmptyTable
    /\ aligned_df = NoFlags
    /\ ret = NoCall

InitTable == InitTopicTable \/ InitYearTable

\* The group lists and country lists the aggregators are called with.  A
\* table is aggregated once.
TableGroupLists == {CRINK_COUNTRIES, << >>}
DivergenceCountryLists == {CRINK_COUNTRIES, <<"RUSSIAN FEDERATION", "CHINA">>}

AlignmentByTopicCall ==
    /\ "topic" \in df.columns
    /\ ret = NoCall
    /\ \E group_countries \in TableGroupLists :
          ret' = [op |-> "alignment_by_topic",
                  group_countries |-> group_countries,
                  out |-> alignment_by_topic(df, group_countries)]
    /\ UNCHANGED <<vote_pivot, self_vote_pivot, df, aligned_df>>

VotingDivergenceByTopicCall ==
    /\ "topic" \in df.columns
    /\ ret = NoCall
    /\ \E countries \in DivergenceCountryLists :
          ret' = [op |-> "voting_divergence_by_topic",
                  countries |-> countries,
                  out |-> voting_divergence_by_topic(df, countries)]
    /\ UNCHANGED <<vote_pivot, self_vote_pivot, df, aligned_df>>

\* yearly_alignment_stats has no raise statement and no lookup that can fail
\* on a table with a year column: it returns for every group list.
YearlyAlignmentStatsCall ==
    /\ "year" \in df.columns
    /\ ret = NoCall
    /\ \E group_countries \in TableGroupLists :
          ret' = [op |-> "yearly_alignment_stats",
                  group_countries |-> group_countries,
                  error |-> "",
                  out |-> yearly_alignment_stats(df, group_countries)]
    /\ UNCHANGED <<vote_pivot, self_vote_pivot, df, aligned_df>>

NextTable ==
    \/ AlignmentByTopicCall
    \/ VotingDivergenceByTopicCall
    \/ YearlyAlignmentStatsCall

SpecTable == InitTable /\ [][NextTable]_vars

(***************************************************************************)
(* Claims about the aggregators (checked under SpecTable).                 *)
(***************************************************************************)
\* The row numbers of df whose column col holds value.
RowsOf(col, value) == {i \in 1..Len(df.rows) : df.rows[i][col] = value}

ValuesOf(col) == {df.rows[i][col] : i \in 1..Len(df.rows)}

\* The distinct votes the members cast on a resolution.
CastVotes(row, members) ==
    {row[members[k]] : k \in Voters(row, df.columns, members)}

\* One row per distinct year of the input, in ascending order of year.
OneRowPerYearAscending(out) ==
    /\ {out[k].year : k \in 1..Len(out)} = ValuesOf("year")
    /\ \A k, l \in 1..Len(out) : k < l => out[k].year < out[l].year
    /\ \A k \in 1..Len(out) :
          out[k].total_resolutions = Cardinality(RowsOf("year", out[k].year))

\* The statement of C13 as written: a resolution counts as unanimous when all
\* the members that voted on it cast the same vote.
C13_UnanimityOfAllParticipants ==
    ret.op = "yearly_alignment_stats" =>
        /\ OneRowPerYearAscending(ret.out)
        /\ \A k \in 1..Len(ret.out) :
              ret.out[k].unanimous_votes =
                  Cardinality({i \in RowsOf("year", ret.out[k].year) :
                      Cardinality(CastVotes(df.rows[i], ret.group_countries)) = 1})

\* C13: yearly_alignment_stats emits exactly one row per distinct year of the
\* input, in ascending year order; total_resolutions is the number of
\* resolutions of the year and unanimous_votes the number of them on which at
\* least 2 group members voted and all that voted cast the same vote.
C13_YearlyUnanimity ==
    ret.op = "yearly_alignment_stats" =>
        /\ OneRowPerYearAscending(ret.out)
        /\ \A k \in 1..Len(ret.out) :
              ret.out[k].unanimous_votes =
                  Cardinality({i \in RowsOf("year", ret.out[k].year) :
                      /\ Cardinality(Voters(df.rows[i], df.columns,
                                            ret.group_countries)) >= 2
                      /\ Cardinality(CastVotes(df.rows[i],
                                               ret.group_countries)) = 1})

\* A year with a unanimous resolution and a resolution with a single voter.
C13_Witness ==
    /\ ret.op = "yearly_alignment_stats"
    /\ ret.out[1].total_resolutions = 2
    /\ ret.out[1].unanimous_votes = 1
    /\ \E i \in RowsOf("year", ret.out[1].year) :
          Cardinality(Voters(df.rows[i], df.columns, ret.group_countries)) = 1

\* C14: alignment_by_topic emits one row per distinct topic with the number of
\* the topic's resolutions, the number of them on which at least 2 group
\* members cast the group's plurality vote, and agreement_pct = 100 * that
\* number / total; the rows are in non-increasing order of agreement_pct.
C14_TopicAgreement ==
    ret.op = "alignment_by_topic" =>
        LET out == ret.out.rows
            members == ret.group_countries
        IN  /\ ret.out.error = ""
            /\ {out[k].topic : k \in 1..Len(out)} = ValuesOf("topic")
            /\ Len(out) = Cardinality(ValuesOf("topic"))
            /\ \A k \in 1..Len(out) :
                  LET resolutions == RowsOf("topic", out[k].topic)
                      agreed == {i \in resolutions :
                                    \E g \in Votes :
                                        /\ IsPluralityVote(df.rows[i], df.columns,
                                                           members, g)
                                        /\ VotesFor(df.rows[i], df.columns,
                                                    members, g) >= 2}
                  IN  /\ out[k].total_resolutions = Cardinality(resolutions)
                      /\ out[k].unanimous_resolutions = Cardinality(agreed)
                      /\ IsPctOf(out[k].agreement_pct, Cardinality(agreed),
                                 Cardinality(resolutions))
            /\ \A k, l \in 1..Len(out) :
                  k < l => PctLeq(out[l].agreement_pct, out[k].agreement_pct)

\* Two topics in the table, the second with the higher percentage; one topic
\* has a resolution where the members that voted all differ.
C14_Witness ==
    /\ ret.op = "alignment_by_topic"
    /\ Len(ret.out.rows) = 2
    /\ ret.out.rows[1].topic # df.rows[1].topic
    /\ ~PctLeq(ret.out.rows[1].agreement_pct, ret.out.rows[2].agreement_pct)
    /\ \E i \in 1..Len(df.rows) :
          /\ Cardinality(Voters(df.rows[i], df.columns, ret.group_countries)) = 2
          /\ Cardinality(CastVotes(df.rows[i], ret.group_countries)) = 2

\* The pairs of a country list that have a resolution of the topic both voted
\* on, and the percentage of each.
ComparableIn(topic, c1, c2) ==
    {i \in RowsOf("topic", topic) :
        df.rows[i][c1] \in Votes /\ df.rows[i][c2] \in Votes}

ValidPairs(topic, countries) ==
    {pr \in (1..Len(countries)) \X (1..Len(countries)) :
        /\ pr[1] < pr[2]
        /\ countries[pr[1]] \in df.columns
        /\ countries[pr[2]] \in df.columns
        /\ ComparableIn(topic, countries[pr[1]], countries[pr[2]]) # {}}

PairPct(topic, c1, c2) ==
    Pct(Cardinality({i \in ComparableIn(topic, c1, c2) :
                        df.rows[i][c1] = df.rows[i][c2]}),
        Cardinality(ComparableIn(topic, c1, c2)))

\* The percentages of a set of pairs, listed in some order.
RECURSIVE PairPcts(_, _, _)
PairPcts(topic, countries, pairs) ==
    IF pairs = {} THEN << >>
    ELSE LET pr == CHOOSE x \in pairs : TRUE
         IN  <<PairPct(topic, countries[pr[1]], countries[pr[2]])>> \o
             PairPcts(topic, countries, pairs \ {pr})

\* C15: a partition appears in the result of voting_divergence_by_topic if
\* and only if at least one pair of the supplied countries has a comparable
\* resolution inside it, once; its mean, std, min and max are taken over the
\* pairs that have one, and a partition without such a pair is left out.
C15_DivergencePartitions ==
    ret.op = "voting_divergence_by_topic" =>
        LET out == ret.out
            countries == ret.countries
            reported == {t \in ValuesOf("topic") : ValidPairs(t, countries) # {}}
        IN  /\ {out[k].topic : k \in 1..Len(out)} = reported
            /\ Len(out) = Cardinality(reported)
            /\ \A k \in 1..Len(out) :
                  LET values == PairPcts(out[k].topic, countries,
                                         ValidPairs(out[k].topic, countries))
                  IN  /\ out[k].avg_agreement = np_mean(values)
                      /\ out[k].agreement_std = np_std(values)
                      /\ out[k].min_agreement = MinPct(values)
                      /\ out[k].max_agreement = MaxPct(values)

\* A table with two topics of which one is reported: its row is computed from
\* fewer pairs than the list has, and above 0.
C15_Witness ==
    /\ ret.op = "voting_divergence_by_topic"
    /\ Cardinality(ValuesOf("topic")) = 2
    /\ Len(ret.out) = 1
    /\ Cardinality(ValidPairs(ret.out[1].topic, ret.countries)) \in {1, 2}
    /\ Len(ret.countries) > 2
    /\ ret.out[1].min_agreement # <<0, 1>>

\* C16: a group-alignment operation invoked with an empty group member list
\* fails with an EmptyGroup error instead of returning a result table or a
\* vacuous statistic.
C16_EmptyGroupFails ==
    /\ (ret.op = "alignment_by_topic" /\ ret.group_countries = << >>) =>
          ret.out.error = "EmptyGroup"
    /\ (ret.op = "yearly_alignment_stats" /\ ret.group_countries = << >>) =>
          ret.error = "EmptyGroup"

(***************************************************************************)
(* VotingDataLoader.create_vote_pivot: df.pivot_table(index=['undl_id',    *)
(* 'date'], columns='ms_name', values='ms_vote', aggfunc='first'), then    *)
(* reset_index() and the year column.                                      *)
(***************************************************************************)
\* The resolutions of the loaded data in index order, and the date of each.
ResolutionIdOrder == <<"R1", "R2">>

DateOf(undl_id) ==
    CASE undl_id = "R1" -> "2020-03-01" [] undl_id = "R2" -> "2021-09-15"

\* pd.to_datetime(date).dt.year
dt_year(date) ==
    CASE date = "2020-03-01" -> 2020 [] date = "2021-09-15" -> 2021

\* The groups of the pivot: the (undl_id, date) keys that occur, sorted.
pivot_index(table) ==
    SelectSeq(ResolutionIdOrder,
              LAMBDA id : \E i \in 1..Len(table.rows) : table.rows[i].undl_id = id)

\* aggfunc='first': the vote of the first record of a (resolution, voter)
\* group; a voter without a record for the resolution gets a missing cell.
pivot_first(table, undl_id, ms_name) ==
    LET group == {i \in 1..Len(table.rows) :
                     /\ table.rows[i].undl_id = undl_id
                     /\ table.rows[i].ms_name = ms_name}
    IN  IF group = {} THEN NaN
        ELSE table.rows[CHOOSE i \in group : \A j \in group : i <= j].ms_vote

create_vote_pivot(table) ==
    LET index == pivot_index(table)
        names == {table.rows[i].ms_name : i \in 1..Len(table.rows)}
    IN  [columns |-> {"undl_id", "date", "year"} \cup names,
         rows |-> [k \in 1..Len(index) |->
                      ("undl_id" :> index[k]) @@
                      ("date" :> DateOf(index[k])) @@
                      ("year" :> dt_year(DateOf(index[k]))) @@
                      [ms_name \in names |->
                          pivot_first(table, index[k], ms_name)]]]

\* The loaded records: every record has a vote, and the records of a
\* resolution carry the resolution's date.
LoadedRecords ==
    {[undl_id |-> id, date |-> DateOf(id), ms_name |-> name, ms_vote |-> vote] :
        id \in ResolutionIds, name \in PairColumns, vote \in Votes}

InitLoader ==
    /\ \E n \in 1..MaxRecords :
          \E rows \in [1..n -> LoadedRecords] :
              df = [columns |-> {"undl_id", "date", "ms_name", "ms_vote"},
                    rows |-> rows]
    /\ vote_pivot = EmptyTable
    /\ self_vote_pivot = EmptyTable
    /\ aligned_df = NoFlags
    /\ ret = NoCall

\* create_vote_pivot has no raise statement; pivot_table aggregates every
\* group of records with 'first'.
CreateVotePivotCall ==
    /\ vote_pivot' = create_vote_pivot(df)
    /\ ret' = [op |-> "create_vote_pivot", error |-> ""]
    /\ UNCHANGED <<self_vote_pivot, df, aligned_df>>

NextLoader == CreateVotePivotCall

SpecLoader == InitLoader /\ [][NextLoader]_vars

(***************************************************************************)
(* Claims about the loader (checked under SpecLoader).                     *)
(***************************************************************************)
\* Two records of df name the same resolution and the same voter.
HasDuplicateVote ==
    \E i, j \in 1..Len(df.rows) :
        /\ i < j
        /\ df.rows[i].undl_id = df.rows[j].undl_id
        /\ df.rows[i].ms_name = df.rows[j].ms_name

\* C17: when the records hold a (resolution, voter) pair more than once,
\* create_vote_pivot reports the duplicate and does not return a matrix that
\* silently keeps one of the votes; for well-formed records the matrix has
\* exactly one row per distinct resolution that has a record.
C17_DuplicatesReported ==
    ret.op = "create_vote_pivot" =>
        IF HasDuplicateVote
        THEN ret.error = "DuplicateVote"
        ELSE /\ {vote_pivot.rows[k].undl_id : k \in 1..Len(vote_pivot.rows)} =
                   {df.rows[i].undl_id : i \in 1..Len(df.rows)}
             /\ \A k, l \in 1..Len(vote_pivot.rows) :
                   vote_pivot.rows[k].undl_id = vote_pivot.rows[l].undl_id => k = l

(***************************************************************************)
(* AlignmentMetrics.jaccard_similarity.  The quotient of two lengths is    *)
(* kept as a fraction in lowest terms.                                     *)
(***************************************************************************)
jaccard_similarity_mutant(votes1, votes2) ==
    IF Len(votes1) = 0 \/ Len(votes2) = 0 THEN nan
    ELSE LET set1 == Range(votes1)
             set2 == Range(votes2)
         IN  IF Cardinality(set1 \cup set2) = 0 THEN <<0, 1>>
             ELSE Frac(Cardinality(set1 \cap set2), Len(votes1 \o votes2))

jaccard_similarity(votes1, votes2) ==
    IF Len(votes1) = 0 \/ Len(votes2) = 0 THEN nan
    ELSE LET set1 == Range(votes1)
             set2 == Range(votes2)
         IN  IF Cardinality(set1 \cup set2) = 0 THEN <<0, 1>>
             ELSE Frac(Cardinality(set1 \cap set2), Cardinality(set1 \cup set2))

MaxVotes == 2

\* The vote lists jaccard_similarity is called with.
VoteLists == UNION {[1..n -> Votes] : n \in 0..MaxVotes}

InitJaccard ==
    /\ vote_pivot = EmptyTable
    /\ self_vote_pivot = EmptyTable
    /\ df = NoRecords
    /\ aligned_df = NoFlags
    /\ ret = NoCall

\* One call on a pair of vote lists.
JaccardSimilarityCall ==
    /\ ret = NoCall
    /\ \E votes1, votes2 \in VoteLists :
          ret' = [op |-> "jaccard_similarity",
                  votes1 |-> votes1,
                  votes2 |-> votes2,
                  out |-> jaccard_similarity(votes1, votes2)]
    /\ UNCHANGED <<vote_pivot, self_vote_pivot, df, aligned_df>>

NextJaccard == JaccardSimilarityCall

SpecJaccard == InitJaccard /\ [][NextJaccard]_vars

\* The distinct vote values that occur in a list.
DistinctVotes(votes) == {v \in Votes : \E i \in 1..Len(votes) : votes[i] = v}

\* C18: jaccard_similarity is undefined when either list is empty; otherwise
\* it is |S1 \cap S2| / |S1 \cup S2| for the sets S1, S2 of distinct vote
\* values of the lists: 0 when the lists share no value, 1 when they hold the
\* same set of values in any order and multiplicity.
C18_Jaccard ==
    ret.op = "jaccard_similarity" =>
        LET S1 == DistinctVotes(ret.votes1)
            S2 == DistinctVotes(ret.votes2)
        IN  IF ret.votes1 = << >> \/ ret.votes2 = << >>
            THEN ret.out = nan
            ELSE /\ ret.out # nan
                 /\ ret.out[1] * Cardinality(S1 \cup S2) =
                       ret.out[2] * Cardinality(S1 \cap S2)
                 /\ S1 \cap S2 = {} => ret.out = <<0, 1>>
                 /\ S1 = S2 => ret.out = <<1, 1>>

\* Two lists of different order and multiplicity that share one value of three.
C18_Witness ==
    /\ ret.op = "jaccard_similarity"
    /\ ret.votes1 = <<"Y", "N">>
    /\ ret.votes2 = <<"A", "Y">>
    /\ ret.out = <<1, 3>>

(***************************************************************************)
(* Claims about the support count (checked under SpecGroup).               *)
(***************************************************************************)
\* The number of votes of a list equal to its most frequent vote.
PluralityCount(votes) ==
    CHOOSE n \in 1..Len(votes) :
        /\ \E v \in Votes : CounterCount(votes, v) = n
        /\ \A v \in Votes : CounterCount(votes, v) <= n

\* The number of votes of the CRINK members on a row equal to its group vote.
SupportCount(row) ==
    VotesFor(row, self_vote_pivot.columns, CRINK_COUNTRIES, row.crink_group_vote[1])

TwoVoted(row) ==
    Cardinality(Voters(row, self_vote_pivot.columns, CRINK_COUNTRIES)) >= 2

\* The statement of C19 as written: with at least 2 voters the support count
\* is defined, also when it is 1, and _count_agreement reports the count that
\* coalition_strength divides by the number of votes.
C19_SupportCountAlwaysDefined ==
    /\ "agreement_count" \in self_vote_pivot.columns =>
          \A i \in 1..Len(self_vote_pivot.rows) :
              LET row == self_vote_pivot.rows[i]
              IN  TwoVoted(row) => row.agreement_count = <<SupportCount(row)>>
    /\ (ret.op = "coalition_strength" /\ Len(ret.votes) >= 2) =>
          /\ _count_agreement(ret.votes) # None
          /\ IsPctOf(ret.out, _count_agreement(ret.votes)[1], Len(ret.votes))

\* C19: for every resolution on which at least 2 group members voted, the
\* support count is the number of collected votes equal to the group vote when
\* that number is at least 2 and is undefined when it is 1 (votes that all
\* differ); the cohesion percentage is 100 * the number of votes equal to the
\* group vote / the number of collected votes in both cases, and
\* _count_agreement reports the count coalition_strength uses exactly when the
\* count is at least 2.
C19_SupportCount ==
    /\ "agreement_count" \in self_vote_pivot.columns =>
          \A i \in 1..Len(self_vote_pivot.rows) :
              LET row == self_vote_pivot.rows[i]
              IN  TwoVoted(row) =>
                      row.agreement_count =
                          IF SupportCount(row) >= 2 THEN <<SupportCount(row)>>
                          ELSE None
    /\ (ret.op = "coalition_strength" /\ Len(ret.votes) >= 2) =>
          /\ IsPctOf(ret.out, PluralityCount(ret.votes), Len(ret.votes))
          /\ _count_agreement(ret.votes) =
                IF PluralityCount(ret.votes) >= 2
                THEN <<PluralityCount(ret.votes)>> ELSE None

\* calculate_crink_votes has run on a resolution where the members that voted
\* all differ, and coalition_strength was called on its votes.
C19_Witness ==
    /\ "agreement_count" \in self_vote_pivot.columns
    /\ ret.op = "coalition_strength"
    /\ Len(ret.votes) >= 2
    /\ PluralityCount(ret.votes) = 1
    /\ \E i \in 1..Len(self_vote_pivot.rows) :
          /\ TwoVoted(self_vote_pivot.rows[i])
          /\ self_vote_pivot.rows[i].agreement_count = None

====
